---- MODULE Spec2Model ----
(***************************************************************************)
(* State machine of cookbook/integrations/singlestore/auto_rag/app.py:     *)
(* one Streamlit session running the script main() top to bottom on every  *)
(* user event, with st.session_state surviving between script runs.        *)
(* Each Step* action is one block of main(); pc is the position of the     *)
(* running script ("idle" when no script runs).  The assistant backend,    *)
(* the readers and the widget store are external: they are modelled from   *)
(* their contracts.                                                        *)
(***************************************************************************)
EXTENDS Integers, Sequences, FiniteSets, TLC

VARIABLES
  \* position of the script and what the last run put on screen
  pc, rendered, ended,
  \* widget store (browser side): values the user has set
  w_llm, w_web, w_url, w_file, w_run, trigger,
  \* st.session_state: the keys present and the values of the fixed keys
  ss_keys, selected_llm, web_search_enabled, ss_assistant, ss_assistant_run_id,
  messages, url_scrape_key, file_uploader_key,
  \* locals of main()
  chunk_size, response,
  \* external collaborators: run store, chat memory, knowledge base
  nruns, history, kb,
  \* observers of the calls made (history variables)
  displayed, notice_shown, calls, frags, respondLog, turn, ing, last, marksSince,
  markers, cleared, snap, rs

widgets == <<w_llm, w_web, w_url, w_file, w_run>>
session == <<ss_keys, selected_llm, web_search_enabled, ss_assistant,
             ss_assistant_run_id, messages, url_scrape_key, file_uploader_key>>
backend == <<nruns, history, kb>>
stream == <<response, frags, respondLog, turn>>
ledgerObs == <<ing, last, marksSince, markers, cleared>>
vars == <<pc, rendered, ended, widgets, trigger, session, chunk_size, stream,
          backend, displayed, notice_shown, calls, ledgerObs, snap, rs>>

----------------------------------------------------------------------------
(* Bounds of the model *)

\* run ids the store can hold (one persisted by an earlier session + new ones)
MaxRuns == 3
\* question/answer turns persisted during the session
MaxTurns == 1
\* fragments the backend yields for one question
MaxFrags == 2
\* documents a reader returns for one source
MaxDocs == 1

----------------------------------------------------------------------------
(* Values *)

Models == {"GPT-4", "GPT-3.5", "Hermes2"}
DefaultModel == "GPT-4"

\* python None for the two session fields that hold it
NoneObj == [none |-> TRUE]
NoneId == 0

Greeting == [role |-> "assistant", content |-> "Ask me anything..."]
Msg(r, c) == [role |-> r, content |-> c]

Questions == {"q"}
\* the fragments of a response, by position: the script never looks into a
\* fragment, so two that differ tell every order, loss and repetition apart
Fragment(i) == IF i % 2 = 1 THEN "a" ELSE "b"

\* text typed into "Add URL to Knowledge Base"; "" is the empty text input
URLs == {"", "a"}
\* uploaded file names, as characters
FileNames == { <<"a", ".", "p">>, <<"a", ".", "b", ".", "p">>, <<"b", ".", "p">> }
NoFile == << >>

InitialUrlKey == 0
InitialFileKey == 100

NoTrigger == [kind |-> "none", text |-> ""]
Click(k) == [kind |-> k, text |-> ""]

RECURSIVE Join(_)
\* "".join(chars)
Join(s) == IF s = << >> THEN "" ELSE Head(s) \o Join(Tail(s))

RECURSIVE Concat(_)
\* the concatenation of a sequence of strings, first to last
Concat(ss) == IF ss = << >> THEN "" ELSE Head(ss) \o Concat(Tail(ss))

Last(s) == s[Len(s)]

----------------------------------------------------------------------------
(* Pure functions of main() *)

\* line 44 comparing with a name the selectbox never yields
ChunkSizeOfMisspelt(llm) == IF llm = "Hermes" THEN 2000 ELSE 3000

\* line 44
ChunkSizeOf(llm) == IF llm = "Hermes2" THEN 2000 ELSE 3000

RECURSIVE SplitFirst(_)
\* name.split(".")[0] on characters: everything before the first dot
SplitFirst(name) ==
  IF name = << >> \/ Head(name) = "." THEN << >>
  ELSE <<Head(name)>> \o SplitFirst(Tail(name))

\* line 147
PdfName(name) == Join(SplitFirst(name))

\* the session_state key the URL gate reads (line 128)
UrlGateKey(input_url) == input_url \o "_scraped"
\* the session_state key a URL ingestion writes (line 135)
UrlMarkKey(input_url) == input_url \o "_uploaded"
\* the session_state key the PDF gate reads and writes (lines 148, 155)
PdfKey(pdf_name) == pdf_name \o "_uploaded"

\* the keys of st.session_state that mark a source as ingested
LedgerKeys == {UrlMarkKey(u) : u \in URLs} \cup {PdfKey(PdfName(f)) : f \in FileNames}
Ledger == ss_keys \cap LedgerKeys

\* lines 96-100: system messages are skipped when rendering
Display(log) == SelectSeq(log, LAMBDA m : m.role # "system")

----------------------------------------------------------------------------
(* External collaborators, from their contracts *)

\* get_assistant(model, run_id, web_search): an Assistant bound to run_id when one
\* is given, otherwise a new one whose run (run_id = NoneId so far) create_run makes
get_assistant(model, run_id, web_search) ==
  [run_id |-> run_id, model |-> model, web_search |-> web_search]

\* Assistant.create_run(): the run the assistant is bound to, or a new run id
create_run(a) == IF a.run_id = NoneId THEN nruns + 1 ELSE a.run_id

\* memory.get_chat_history() of the run the assistant is bound to
get_chat_history(a) == history[a.run_id]

\* storage.get_all_run_ids(): newest first
get_all_run_ids == [i \in 1..nruns |-> nruns + 1 - i]

\* the value of the "Run ID" selectbox: the user's pick, else the first option
RunSelected == IF w_run # NoneId THEN w_run
               ELSE IF nruns = 0 THEN NoneId ELSE get_all_run_ids[1]

\* Reader.read(source, chunk_size): the documents read, possibly none; a
\* document is named by its source and its position
Docs(kind, src, n) == {<<kind, src, i>> : i \in 1..n}

\* how many documents a read of the source may return: any number, and none
\* for the empty URL
ReaderYields(kind, src) == IF src = <<"">> THEN {0} ELSE 0..MaxDocs

\* the history a run persisted by an earlier session holds
OldHistory == <<Msg("system", "s"), Msg("user", "q"), Msg("assistant", "a")>>

RECURSIVE Persisted(_)
\* messages held by the runs 1..r of the store
Persisted(r) == IF r = 0 THEN 0 ELSE Len(history[r]) + Persisted(r - 1)

\* what get_assistant configures on every assistant of this application; main()
\* probes it at lines 116, 159 and 179
caps == {"knowledge_base", "storage"}

----------------------------------------------------------------------------
(* Observers *)

\* ing is the pass through an ingestion block made by the current script run:
\* the calls it made, in order (trace), what the reader returned (docs), what
\* was upserted (sent), the chunk size given to the reader, whether the key had
\* been marked since the last restart (keyFresh: it had not) and how it follows
\* the pass before it (repeat: "first", or the same source again "after_docs",
\* "after_empty", "after_skip").  last keeps the source and outcome of the
\* latest pass since the last restart; marksSince is the set of keys marked
\* since the last restart.  markers tells, for the whole session, which kind
\* of source marked which key, and by is the set of kinds that had marked the
\* key of a pass when it began.  cleared is the ledger as "Clear Knowledge
\* Base" last found it since the last restart.
NoIng == [kind |-> "none", src |-> << >>, key |-> "", trace |-> << >>,
          docs |-> {}, sent |-> {}, size |-> 0, keyFresh |-> FALSE,
          repeat |-> "first", by |-> {}]
NoLast == [kind |-> "none", src |-> << >>, outcome |-> "none"]
\* snap is the session as the event being served found it
NoSnap == [taken |-> FALSE]
Snapshot == [taken |-> TRUE, keys |-> ss_keys, llm |-> selected_llm,
             web |-> web_search_enabled, assistant |-> ss_assistant,
             run_id |-> ss_assistant_run_id, messages |-> messages,
             ledger |-> Ledger]
\* rs follows a restart or a run switch through the script runs it causes:
\* "restarting" from restart_assistant() to the next create_run(), then
\* "active"; "switching" from the run selector's rerun to the next
\* create_run(), then "switched".  old is the run id stored before, known the
\* newest run of the store at a restart and the run picked at a switch.
\* calls counts, for the script run in progress or last ended, the calls made
\* to Assistant.create_run and to Assistant.run
NoCalls == [create_run |-> 0, run |-> 0]
NoRestart == [phase |-> "none", old |-> NoneId, known |-> 0, why |-> "none"]


----------------------------------------------------------------------------
(* Initial state: the page has just been opened and the first script run    *)
(* starts with every widget at its default and an empty session_state.      *)

Init ==
  /\ pc = "llm" /\ rendered = {} /\ ended = "running"
  /\ w_llm = DefaultModel /\ w_web = FALSE
  /\ w_url = "" /\ w_file = NoFile
  /\ w_run = NoneId /\ trigger = NoTrigger
  /\ ss_keys = {} /\ selected_llm = "" /\ web_search_enabled = FALSE
  /\ ss_assistant = NoneObj /\ ss_assistant_run_id = NoneId
  /\ messages = << >> /\ url_scrape_key = 0 /\ file_uploader_key = 0
  /\ chunk_size = 0 /\ response = ""
  /\ nruns = 1 /\ history = [r \in 1..MaxRuns |-> IF r = 1 THEN OldHistory ELSE << >>]
  /\ kb = {}
  /\ displayed = << >> /\ notice_shown = FALSE /\ calls = NoCalls
  /\ frags = << >> /\ respondLog = << >> /\ turn = "none"
  /\ ing = NoIng /\ last = NoLast /\ marksSince = {}
  /\ markers = {} /\ cleared = {}
  /\ snap = [taken |-> TRUE, keys |-> {}, llm |-> "", web |-> FALSE,
             assistant |-> NoneObj, run_id |-> NoneId, messages |-> << >>,
             ledger |-> {}]
  /\ rs = NoRestart

----------------------------------------------------------------------------
(* Script scheduling: Streamlit starts main() on a user event and on        *)
(* st.rerun(); one-shot widgets (buttons, chat_input) are reset when a run  *)
(* ends or is cut by a rerun.                                               *)

\* what every new script run starts from
RunReset ==
  /\ pc' = "llm" /\ rendered' = {} /\ ended' = "running"
  /\ displayed' = << >> /\ notice_shown' = FALSE /\ calls' = NoCalls
  /\ response' = "" /\ frags' = << >> /\ respondLog' = << >> /\ turn' = "none"

\* a user event at rest starts a script run carrying the one-shot trigger
StartRun(trig) ==
  /\ pc = "idle"
  /\ trigger' = trig
  /\ RunReset
  /\ snap' = Snapshot
  /\ rs' = NoRestart
  /\ ing' = NoIng
  /\ UNCHANGED <<session, chunk_size, backend, last, marksSince, markers, cleared>>

\* st.rerun(): the running script is cut and main() starts again
st_rerun ==
  /\ trigger' = NoTrigger
  /\ RunReset

\* the script returns, or raises, and the session waits for the next event
EndRun(how) ==
  /\ pc' = "idle" /\ ended' = how /\ trigger' = NoTrigger

\* room for one more restart: a run id to create and a widget key to count it
RestartBudget == nruns < MaxRuns /\ url_scrape_key < InitialUrlKey + MaxRuns

\* the text input and the file uploader are keyed by the session's counters:
\* a widget under a new key is a new, empty widget
Rekeyed(present, value, empty) == IF present THEN empty ELSE value

----------------------------------------------------------------------------
(* User events *)

SelectModel(m) ==
  /\ "llm" \in rendered /\ m # w_llm /\ RestartBudget
  /\ w_llm' = m
  /\ StartRun(NoTrigger)
  /\ UNCHANGED <<w_web, w_url, w_file, w_run>>

ToggleWebSearch ==
  /\ "web" \in rendered /\ RestartBudget
  /\ w_web' = ~w_web
  /\ StartRun(NoTrigger)
  /\ UNCHANGED <<w_llm, w_url, w_file, w_run>>

SubmitQuestion(q) ==
  /\ "chat" \in rendered
  /\ Persisted(MaxRuns) < Len(OldHistory) + 2 * MaxTurns
  /\ StartRun([kind |-> "prompt", text |-> q])
  /\ UNCHANGED widgets

TypeUrl(u) ==
  /\ "url" \in rendered /\ u # w_url
  /\ w_url' = u
  /\ StartRun(NoTrigger)
  /\ UNCHANGED <<w_llm, w_web, w_file, w_run>>

ClickAddUrl ==
  /\ "url" \in rendered
  /\ StartRun(Click("add_url"))
  /\ UNCHANGED widgets

\* upload a file, or remove the uploaded one (f = NoFile)
UploadFile(f) ==
  /\ "pdf" \in rendered /\ f # w_file
  /\ w_file' = f
  /\ StartRun(NoTrigger)
  /\ UNCHANGED <<w_llm, w_web, w_url, w_run>>

SelectRun(r) ==
  /\ "runs" \in rendered /\ r <= nruns /\ r # RunSelected
  /\ w_run' = r
  /\ StartRun(NoTrigger)
  /\ UNCHANGED <<w_llm, w_web, w_url, w_file>>

ClickNewRun ==
  /\ "buttons" \in rendered /\ RestartBudget
  /\ StartRun(Click("new_run"))
  /\ UNCHANGED widgets

ClickAutoRename ==
  /\ "buttons" \in rendered
  /\ StartRun(Click("auto_rename"))
  /\ UNCHANGED widgets

ClickClearKnowledgeBase ==
  /\ "clear" \in rendered
  /\ StartRun(Click("clear_kb"))
  /\ UNCHANGED widgets

\* the reload button, or the browser's rerun: main() runs with nothing changed
Reload ==
  /\ StartRun(NoTrigger)
  /\ UNCHANGED widgets

----------------------------------------------------------------------------
(* restart_assistant(), lines 21-29.  keys is st.session_state's key set as *)
(* the caller left it; why names the caller for the observers.              *)

\* restart_assistant() without its line 24: the run id stays in the session
restart_assistant_keeps_run_id(keys, why) ==
  /\ ss_assistant' = NoneObj
  /\ ss_assistant_run_id' = ss_assistant_run_id
  /\ ss_keys' = keys \cup {"ss_assistant"}
  /\ url_scrape_key' = IF "url_scrape_key" \in keys THEN url_scrape_key + 1
                       ELSE url_scrape_key
  /\ file_uploader_key' = IF "file_uploader_key" \in keys THEN file_uploader_key + 1
                          ELSE file_uploader_key
  /\ w_url' = Rekeyed("url_scrape_key" \in keys, w_url, "")
  /\ w_file' = Rekeyed("file_uploader_key" \in keys, w_file, NoFile)
  /\ st_rerun
  /\ rs' = [phase |-> "restarting",
            old |-> IF "ss_assistant_run_id" \in keys THEN ss_assistant_run_id ELSE NoneId,
            known |-> nruns, why |-> why]
  /\ ing' = NoIng /\ last' = NoLast /\ marksSince' = {}
  /\ cleared' = {} /\ UNCHANGED markers

\* restart_assistant() dropping the pending notice flag with the references
restart_assistant_drops_notice(keys, why) ==
  /\ ss_assistant' = NoneObj
  /\ ss_assistant_run_id' = NoneId
  /\ ss_keys' = (keys \ {"llm_updated"}) \cup {"ss_assistant", "ss_assistant_run_id"}
  /\ url_scrape_key' = IF "url_scrape_key" \in keys THEN url_scrape_key + 1
                       ELSE url_scrape_key
  /\ file_uploader_key' = IF "file_uploader_key" \in keys THEN file_uploader_key + 1
                          ELSE file_uploader_key
  /\ w_url' = Rekeyed("url_scrape_key" \in keys, w_url, "")
  /\ w_file' = Rekeyed("file_uploader_key" \in keys, w_file, NoFile)
  /\ st_rerun
  /\ rs' = [phase |-> "restarting",
            old |-> IF "ss_assistant_run_id" \in keys THEN ss_assistant_run_id ELSE NoneId,
            known |-> nruns, why |-> why]
  /\ ing' = NoIng /\ last' = NoLast /\ marksSince' = {}
  /\ cleared' = {} /\ UNCHANGED markers

restart_assistant(keys, why) ==
  /\ ss_assistant' = NoneObj
  /\ ss_assistant_run_id' = NoneId
  /\ ss_keys' = keys \cup {"ss_assistant", "ss_assistant_run_id"}
  /\ url_scrape_key' = IF "url_scrape_key" \in keys THEN url_scrape_key + 1
                       ELSE url_scrape_key
  /\ file_uploader_key' = IF "file_uploader_key" \in keys THEN file_uploader_key + 1
                          ELSE file_uploader_key
  /\ w_url' = Rekeyed("url_scrape_key" \in keys, w_url, "")
  /\ w_file' = Rekeyed("file_uploader_key" \in keys, w_file, NoFile)
  /\ st_rerun
  /\ rs' = [phase |-> "restarting",
            old |-> IF "ss_assistant_run_id" \in keys THEN ss_assistant_run_id ELSE NoneId,
            known |-> nruns, why |-> why]
  /\ ing' = NoIng /\ last' = NoLast /\ marksSince' = {}
  /\ cleared' = {} /\ UNCHANGED markers

----------------------------------------------------------------------------
(* main(), block by block *)

\* lines 40, 57 leaving the session copy as it was
UpdatedSettingKept(stored, widget) == stored

\* lines 40, 57: the session copy of a setting takes the widget's new value
UpdatedSetting(stored, widget) == widget

\* lines 34-50: the model selectbox and its session copy (a change restarts),
\* the chunk size, the notice after a model change
StepLlm ==
  /\ pc = "llm"
  /\ IF "selected_llm" \in ss_keys /\ selected_llm # w_llm
     THEN /\ selected_llm' = UpdatedSetting(selected_llm, w_llm)
          /\ restart_assistant(ss_keys \cup {"llm_updated"}, "model")
          /\ UNCHANGED <<web_search_enabled, messages, chunk_size>>
     ELSE /\ selected_llm' = IF "selected_llm" \in ss_keys THEN selected_llm ELSE w_llm
          /\ chunk_size' = ChunkSizeOf(w_llm)
          /\ notice_shown' = ("llm_updated" \in ss_keys) /\ UNCHANGED calls
          /\ ss_keys' = (ss_keys \cup {"selected_llm"}) \ {"llm_updated"}
          /\ pc' = "web"
          /\ rendered' = rendered \cup {"llm"}
          /\ UNCHANGED <<ended, trigger, web_search_enabled, ss_assistant,
                         ss_assistant_run_id, messages, url_scrape_key,
                         file_uploader_key, stream, displayed, w_url, w_file,
                         ledgerObs, rs>>
  /\ UNCHANGED <<w_llm, w_web, w_run, backend, snap>>

\* lines 53-58: the web-search checkbox and its session copy (a change restarts)
StepWeb ==
  /\ pc = "web"
  /\ IF "web_search_enabled" \in ss_keys /\ web_search_enabled # w_web
     THEN /\ web_search_enabled' = UpdatedSetting(web_search_enabled, w_web)
          /\ restart_assistant(ss_keys, "web_search")
          /\ UNCHANGED <<selected_llm, messages>>
     ELSE /\ web_search_enabled' = IF "web_search_enabled" \in ss_keys
                                   THEN web_search_enabled ELSE w_web
          /\ ss_keys' = ss_keys \cup {"web_search_enabled"}
          /\ pc' = "assistant"
          /\ rendered' = rendered \cup {"web"}
          /\ UNCHANGED <<ended, trigger, selected_llm, ss_assistant,
                         ss_assistant_run_id, messages, url_scrape_key,
                         file_uploader_key, stream, displayed, notice_shown, calls,
                         w_url, w_file, ledgerObs, rs>>
  /\ UNCHANGED <<w_llm, w_web, w_run, chunk_size, backend, snap>>

\* lines 60-73: the session's assistant, or a new one, which is stored
TakeAssistant ==
  IF "ss_assistant" \notin ss_keys \/ ss_assistant = NoneObj
  THEN IF "ss_assistant_run_id" \in ss_keys
       THEN get_assistant(w_llm, ss_assistant_run_id, w_web)
       ELSE get_assistant(w_llm, NoneId, w_web)
  ELSE ss_assistant

\* lines 60-77: the assistant is taken and create_run() answers; the run id is
\* stored.  A run the store did not hold is added to it, which changes the
\* options of the run selector.
StepCreateRun ==
  /\ pc = "assistant"
  /\ LET a == TakeAssistant
         rid == create_run(a)
     IN /\ rid <= MaxRuns
        /\ ss_assistant_run_id' = rid
        /\ ss_assistant' = [a EXCEPT !.run_id = rid]
        /\ nruns' = IF rid > nruns THEN rid ELSE nruns
        /\ w_run' = IF rid > nruns THEN NoneId ELSE w_run
  /\ ss_keys' = ss_keys \cup {"ss_assistant", "ss_assistant_run_id"}
  /\ calls' = [calls EXCEPT !.create_run = @ + 1]
  /\ rs' = IF rs.phase = "restarting" THEN [rs EXCEPT !.phase = "active"]
           ELSE IF rs.phase = "switching" THEN [rs EXCEPT !.phase = "switched"]
           ELSE rs
  /\ pc' = "history"
  /\ UNCHANGED <<rendered, ended, w_llm, w_web, w_url, w_file, trigger, selected_llm,
                 web_search_enabled, messages, url_scrape_key, file_uploader_key,
                 chunk_size, stream, history, kb, displayed,
                 notice_shown, ledgerObs, snap>>

\* lines 60-80: the assistant is taken and stored, create_run() raises (the
\* store cannot be reached just now); a warning is shown and main() returns
StepCreateRunFails ==
  /\ pc = "assistant"
  /\ ss_assistant' = TakeAssistant
  /\ ss_keys' = ss_keys \cup {"ss_assistant"}
  /\ calls' = [calls EXCEPT !.create_run = @ + 1]
  /\ EndRun("db_warning")
  /\ UNCHANGED <<rendered, widgets, selected_llm, web_search_enabled,
                 ss_assistant_run_id, messages, url_scrape_key, file_uploader_key,
                 chunk_size, stream, backend, displayed, notice_shown, ledgerObs,
                 snap, rs>>

\* lines 84-89 with the greeting set only when the session holds no log yet
LoadLogOnce(ss_assistant_chat_history) ==
  IF Len(ss_assistant_chat_history) > 0
  THEN ss_assistant_chat_history
  ELSE IF "messages" \in ss_keys THEN messages ELSE <<Greeting>>

\* lines 84-89 loading only what is rendered: system entries are left out
LoadLogWithoutSystem(ss_assistant_chat_history) ==
  IF Len(ss_assistant_chat_history) > 0
  THEN Display(ss_assistant_chat_history)
  ELSE <<Greeting>>

\* lines 84-89: the log a script run starts from
LoadLog(ss_assistant_chat_history) ==
  IF Len(ss_assistant_chat_history) > 0
  THEN ss_assistant_chat_history
  ELSE <<Greeting>>

\* lines 83-100: the log is the run's persisted history, or the greeting; the
\* question typed, if any, is appended; the log is displayed
StepHistory ==
  /\ pc = "history"
  /\ LET loaded == LoadLog(get_chat_history(ss_assistant))
     IN messages' = IF trigger.kind = "prompt"
                    THEN Append(loaded, Msg("user", trigger.text))
                    ELSE loaded
  /\ ss_keys' = ss_keys \cup {"messages"}
  /\ displayed' = Display(messages')
  /\ rendered' = rendered \cup {"chat"}
  /\ pc' = "respond"
  /\ UNCHANGED <<ended, widgets, trigger, selected_llm, web_search_enabled,
                 ss_assistant, ss_assistant_run_id, url_scrape_key, file_uploader_key,
                 chunk_size, stream, backend, notice_shown, calls, ledgerObs, snap, rs>>

\* line 104 taking every last message for a question
ShouldRespondAlways(last_message) == TRUE

\* line 104: the last message is from the user
ShouldRespond(last_message) == last_message.role = "user"

\* lines 103-108: a response is generated when the last message is the user's
StepRespond ==
  /\ pc = "respond"
  /\ LET last_message == Last(messages) IN
       IF ShouldRespond(last_message)
       THEN /\ pc' = "stream"
            /\ response' = ""
            /\ frags' = << >> /\ respondLog' = messages /\ turn' = "streaming"
            /\ calls' = [calls EXCEPT !.run = @ + 1]
       ELSE /\ pc' = "kb_url"
            /\ UNCHANGED <<stream, calls>>
  /\ UNCHANGED <<rendered, ended, widgets, trigger, session, chunk_size, backend,
                 displayed, notice_shown, ledgerObs, snap, rs>>

\* line 110 with its operands swapped
AccumulatePrepended(buffer, delta) == delta \o buffer

\* line 110: response += delta
Accumulate(buffer, delta) == buffer \o delta

\* lines 109-111: the backend yields one more fragment
StreamYield ==
  /\ pc = "stream" /\ Len(frags) < MaxFrags
  /\ LET delta == Fragment(Len(frags) + 1) IN
       /\ response' = Accumulate(response, delta)
       /\ frags' = Append(frags, delta)
  /\ UNCHANGED <<pc, rendered, ended, widgets, trigger, session, chunk_size,
                 respondLog, turn, backend, displayed, notice_shown, calls, ledgerObs,
                 snap, rs>>

\* what the backend keeps of a turn it has streamed to the end
PersistTurn(h, question, answer) ==
  h \o <<Msg("user", question), Msg("assistant", answer)>>

\* line 113: the stream is exhausted and the response is appended to the log;
\* the backend has persisted the turn in the run's history
StreamExhausted ==
  /\ pc = "stream"
  /\ messages' = Append(messages, Msg("ss_assistant", response))
  /\ history' = [history EXCEPT ![ss_assistant.run_id] =
                   PersistTurn(@, Last(messages).content, Concat(frags))]
  /\ turn' = "answered"
  /\ pc' = "kb_url"
  /\ UNCHANGED <<rendered, ended, widgets, trigger, ss_keys, selected_llm,
                 web_search_enabled, ss_assistant, ss_assistant_run_id,
                 url_scrape_key, file_uploader_key, chunk_size, response, frags,
                 respondLog, nruns, kb, displayed,
                 notice_shown, calls, ledgerObs, snap, rs>>

\* a handler that saves what had arrived when the backend raised
OnStreamErrorKeepsPartial(log, partial) == Append(log, Msg("ss_assistant", partial))

\* lines 109-113 sit in no try block: an exception of the backend leaves the
\* loop and main() before line 113, and the log keeps what it held
OnStreamError(log, partial) == log

\* line 109: the backend raises while streaming; the exception leaves main()
StreamFails ==
  /\ pc = "stream"
  /\ messages' = OnStreamError(messages, response)
  /\ turn' = "failed"
  /\ EndRun("stream_error")
  /\ UNCHANGED <<rendered, widgets, ss_keys, selected_llm, web_search_enabled,
                 ss_assistant, ss_assistant_run_id, url_scrape_key, file_uploader_key,
                 chunk_size, response, frags, respondLog,
                 backend, displayed, notice_shown, calls, ledgerObs, snap, rs>>

----------------------------------------------------------------------------
(* Knowledge-base ingestion, lines 116-157 *)

\* line 128: the URL is read unless its gate key is in the session
UrlGateOpen(input_url, keys) == UrlGateKey(input_url) \notin keys

\* line 148: the PDF is read unless its key is in the session
PdfGateOpen(pdf_name, keys) == PdfKey(pdf_name) \notin keys

\* lines 135, 155: the key is set after the read, whatever the reader returned
MarksAfterRead(n) == TRUE

\* lines 131-134, 151-154: what follows a read that returned n documents
AfterRead(n) == IF n > 0 THEN <<"upsert">> ELSE <<"error">>

\* One pass through an ingestion block whose button or upload is active:
\* open tells whether the gate let it through, n is what the reader returns,
\* keys is st.session_state's key set when the block is entered.
Ingest(kind, src, markKey, open, n, keys) ==
  LET docs == Docs(kind, src, n)
      marks == open /\ MarksAfterRead(n)
      upserts == open /\ AfterRead(n) = <<"upsert">>
  IN /\ kb' = IF upserts THEN kb \cup {"documents"} ELSE kb
     /\ ss_keys' = IF marks THEN keys \cup {markKey} ELSE keys
     /\ ing' = [kind |-> kind, src |-> src, key |-> markKey,
                trace |-> IF open
                          THEN <<"read">> \o AfterRead(n)
                               \o (IF marks THEN <<"mark">> ELSE << >>)
                          ELSE << >>,
                docs |-> IF open THEN docs ELSE {},
                sent |-> IF upserts THEN docs ELSE {},
                size |-> IF open THEN chunk_size ELSE 0,
                keyFresh |-> markKey \notin marksSince,
                repeat |-> IF last.kind = kind /\ last.src = src
                           THEN last.outcome ELSE "first",
                by |-> {k \in {"url", "file"} : <<k, markKey>> \in markers}]
     /\ last' = [kind |-> kind, src |-> src,
                 outcome |-> IF ~open THEN "after_skip"
                             ELSE IF n = 0 THEN "after_empty" ELSE "after_docs"]
     /\ marksSince' = IF marks THEN marksSince \cup {markKey} ELSE marksSince
     /\ markers' = IF marks THEN markers \cup {<<kind, markKey>>} ELSE markers
     /\ UNCHANGED cleared

\* lines 116-136: the URL block ("Add URL")
StepUrl ==
  /\ pc = "kb_url"
  /\ IF "knowledge_base" \in caps
     THEN LET key == IF "url_scrape_key" \in ss_keys THEN url_scrape_key
                     ELSE InitialUrlKey
              keys == ss_keys \cup {"url_scrape_key"}
              input_url == w_url
          IN /\ url_scrape_key' = key
             /\ rendered' = rendered \cup {"url"}
             /\ pc' = "kb_pdf"
             /\ IF trigger.kind = "add_url"
                THEN \E n \in ReaderYields("url", <<input_url>>) :
                       /\ UrlGateOpen(input_url, keys) \/ n = 0
                       /\ Ingest("url", <<input_url>>, UrlMarkKey(input_url),
                                 UrlGateOpen(input_url, keys), n, keys)
                ELSE /\ ss_keys' = keys
                     /\ UNCHANGED <<kb, ledgerObs>>
     ELSE /\ pc' = "runs"
          /\ UNCHANGED <<url_scrape_key, rendered, ss_keys, kb, ledgerObs>>
  /\ UNCHANGED <<ended, widgets, trigger, selected_llm, web_search_enabled,
                 ss_assistant, ss_assistant_run_id, messages, file_uploader_key,
                 chunk_size, stream, nruns, history,
                 displayed, notice_shown, calls, snap, rs>>

\* lines 139-157: the PDF block (the uploader holds its file across script runs)
StepPdf ==
  /\ pc = "kb_pdf"
  /\ LET key == IF "file_uploader_key" \in ss_keys THEN file_uploader_key
                ELSE InitialFileKey
         keys == ss_keys \cup {"file_uploader_key"}
         uploaded_file == w_file
         pdf_name == PdfName(uploaded_file)
     IN /\ file_uploader_key' = key
        /\ IF uploaded_file # NoFile
           THEN \E n \in ReaderYields("file", uploaded_file) :
                  /\ PdfGateOpen(pdf_name, keys) \/ n = 0
                  /\ Ingest("file", uploaded_file, PdfKey(pdf_name),
                            PdfGateOpen(pdf_name, keys), n, keys)
           ELSE /\ ss_keys' = keys
                /\ UNCHANGED <<kb, ledgerObs>>
  /\ rendered' = rendered \cup {"pdf"}
  /\ pc' = "runs"
  /\ UNCHANGED <<ended, widgets, trigger, selected_llm, web_search_enabled,
                 ss_assistant, ss_assistant_run_id, messages, url_scrape_key,
                 chunk_size, stream, nruns, history,
                 displayed, notice_shown, calls, snap, rs>>

----------------------------------------------------------------------------
(* Run selector and buttons, lines 159-184 *)

\* lines 159-167: another run picked in the selector is loaded, then rerun
StepRuns ==
  /\ pc = "runs"
  /\ LET new_assistant_run_id == RunSelected IN
       IF /\ "storage" \in caps
          /\ new_assistant_run_id # NoneId
          /\ ss_assistant_run_id # new_assistant_run_id
       THEN /\ ss_assistant' = get_assistant(w_llm, new_assistant_run_id, w_web)
            /\ st_rerun
            /\ rs' = [phase |-> "switching", old |-> ss_assistant_run_id,
                      known |-> new_assistant_run_id, why |-> "switch"]
       ELSE /\ pc' = "buttons"
            /\ rendered' = IF "storage" \in caps THEN rendered \cup {"runs"}
                           ELSE rendered
            /\ UNCHANGED <<ended, trigger, ss_assistant, stream, displayed,
                           notice_shown, calls, rs>>
  /\ UNCHANGED <<widgets, ss_keys, selected_llm, web_search_enabled,
                 ss_assistant_run_id, messages, url_scrape_key, file_uploader_key,
                 chunk_size, backend, ledgerObs, snap>>

\* a run that reached its end leaves nothing to observe of its stream, the
\* state before it, or the restart it completed
\* lines 169-184: New Run, Auto Rename (the run's name lives in the store and is
\* only displayed), Clear Knowledge Base; then main() ends
StepButtons ==
  /\ pc = "buttons"
  /\ IF trigger.kind = "new_run"
     THEN /\ restart_assistant(ss_keys, "new_run")
          /\ UNCHANGED <<selected_llm, web_search_enabled, messages, kb, snap>>
     ELSE /\ kb' = IF trigger.kind = "clear_kb" /\ "knowledge_base" \in caps
                   THEN {} ELSE kb
          /\ rendered' = rendered \cup {"buttons"}
                         \cup (IF "knowledge_base" \in caps THEN {"clear"} ELSE {})
          /\ EndRun("complete")
          /\ response' = "" /\ frags' = << >> /\ respondLog' = << >> /\ turn' = "none"
          /\ snap' = NoSnap /\ rs' = NoRestart /\ ing' = NoIng
          /\ cleared' = IF trigger.kind = "clear_kb" /\ "knowledge_base" \in caps
                        THEN Ledger ELSE cleared
          /\ UNCHANGED <<session, displayed, notice_shown, calls, last, marksSince,
                         markers, w_url, w_file>>
  /\ UNCHANGED <<w_llm, w_web, w_run, chunk_size, nruns, history>>

----------------------------------------------------------------------------
(* Specification *)

\* events of the conversation: configuration, questions, runs
ChatEvent ==
  \/ \E m \in Models : SelectModel(m)
  \/ ToggleWebSearch
  \/ \E q \in Questions : SubmitQuestion(q)
  \/ \E r \in 1..MaxRuns : SelectRun(r)
  \/ ClickNewRun
  \/ ClickAutoRename
  \/ Reload

\* events of the knowledge base: sources added, the base cleared
KnowledgeEvent ==
  \/ \E u \in URLs : TypeUrl(u)
  \/ ClickAddUrl
  \/ \E f \in FileNames \cup {NoFile} : UploadFile(f)
  \/ ClickClearKnowledgeBase

\* the blocks of main() outside the response stream
ScriptBlock ==
  \/ StepLlm
  \/ StepWeb
  \/ StepCreateRun
  \/ StepCreateRunFails
  \/ StepHistory
  \/ StepRespond
  \/ StepUrl
  \/ StepPdf
  \/ StepRuns
  \/ StepButtons

\* the response stream, lines 109-113
StreamStep ==
  \/ StreamYield
  \/ StreamExhausted
  \/ StreamFails

ScriptStep == ScriptBlock \/ StreamStep

Next == ChatEvent \/ KnowledgeEvent \/ ScriptStep

\* every event, every block
Spec == Init /\ [][Next]_vars

\* a session in which the user converses and adds no source
NextChat == ChatEvent \/ ScriptStep
SpecChat == Init /\ [][NextChat]_vars

\* a session in which the user changes the configuration and the run, and
\* asks nothing
NextRuns ==
  \/ \E m \in Models : SelectModel(m)
  \/ ToggleWebSearch
  \/ \E r \in 1..MaxRuns : SelectRun(r)
  \/ ClickNewRun
  \/ Reload
  \/ ScriptBlock
SpecRuns == Init /\ [][NextRuns]_vars

\* a script that has started runs on: Streamlit executes main() to its end
FairRuns == SpecRuns /\ WF_vars(ScriptBlock)

\* a session in which the user feeds the knowledge base and asks nothing, with
\* the run store reachable
NextKnowledge ==
  \/ KnowledgeEvent
  \/ \E m \in Models : SelectModel(m)
  \/ ClickNewRun
  \/ Reload
  \/ StepLlm \/ StepWeb \/ StepCreateRun \/ StepHistory \/ StepRespond
  \/ StepUrl \/ StepPdf \/ StepRuns \/ StepButtons
SpecKnowledge == Init /\ [][NextKnowledge]_vars

----------------------------------------------------------------------------
(* Properties *)

IsPrefix(s, t) == Len(s) <= Len(t) /\ SubSeq(t, 1, Len(s)) = s

Roles == {"user", "assistant", "system"}

\* the script has loaded the log of the run it resolved (line 89 is behind it)
LogLoaded == pc \in {"respond", "stream", "kb_url", "kb_pdf", "runs", "buttons"}

\* C1 - Idempotent ingestion: when the same source (URL or file) is ingested
\* again right after an ingestion of it that read at least one document, with
\* no restart in between, the second pass is skipped: no reader call and no
\* upsert.
C1_IdempotentIngestion ==
  (ing.kind # "none" /\ ing.repeat = "after_docs") => ing.trace = << >>

\* C2 - Empty result leaves the ledger untouched: a read that returns no
\* document shows an error, upserts nothing and marks no key, and the next
\* ingestion of the same source invokes the reader again.
C2_EmptyResultLeavesLedger ==
  /\ (ing.trace # << >> /\ ing.docs = {}) => ing.trace = <<"read", "error">>
  /\ (ing.kind # "none" /\ ing.repeat = "after_empty") => ing.trace # << >>

\* C3 - Restart clears the ingestion ledger: once restart_assistant has run no
\* source key is marked in the session, and a source whose key has not been
\* marked since the last restart is read, and upserted if it has documents,
\* when it is ingested.
C3_RestartClearsLedger ==
  /\ (rs.phase = "restarting" /\ pc # "idle") => Ledger = {}
  /\ (ing.kind # "none" /\ ing.keyFresh) =>
       /\ ing.trace # << >>
       /\ ing.docs # {} => ing.sent = ing.docs

\* C4 - Restart resets the message log: in the script run that follows a
\* restart, once the run is resolved again and its log loaded, the message log
\* is exactly the greeting, whatever it held before the restart.
C4_RestartResetsLog ==
  (rs.phase = "active" /\ LogLoaded) => messages = <<Greeting>>

\* the log before the restart held more than the greeting
C4_Witness ==
  /\ rs.phase = "active" /\ LogLoaded
  /\ snap.taken /\ Len(snap.messages) > 1
  /\ messages = <<Greeting>>

\* C5 - Restart leads to a new run: restart_assistant clears the assistant and
\* run-id references; the run stored when the session is resolved again was
\* created after the trigger and is not the run active before it; and a
\* restart is always followed by that resolution or by the warning that the
\* store could not be reached.
C5_RestartLeadsToNewRun ==
  /\ []((rs.phase = "restarting" /\ pc # "idle") =>
          (ss_assistant = NoneObj /\ ss_assistant_run_id = NoneId))
  /\ [](rs.phase = "active" =>
          /\ ss_assistant_run_id > rs.known
          /\ ss_assistant_run_id # rs.old
          /\ ss_assistant.run_id = ss_assistant_run_id)
  /\ (rs.phase = "restarting") ~> (rs.phase = "active" \/ ended = "db_warning")

\* an Active session restarted by a model change holds a new run
C5_Witness ==
  /\ rs.phase = "active" /\ rs.why = "model" /\ rs.old # NoneId
  /\ ss_assistant_run_id = nruns

\* C6 - Streaming accumulation: while fragments arrive nothing is appended to
\* the log and the buffer is the concatenation of the fragments received; when
\* the stream is exhausted exactly one message is appended, whose content is
\* the concatenation of all fragments in the order they were yielded.
C6_StreamingAccumulation ==
  /\ turn = "streaming" => (messages = respondLog /\ response = Concat(frags))
  /\ turn = "answered" =>
       /\ Len(messages) = Len(respondLog) + 1
       /\ IsPrefix(respondLog, messages)
       /\ Last(messages).content = Concat(frags)

\* a response of two fragments has been appended
C6_Witness ==
  /\ turn = "answered" /\ Len(frags) = 2
  /\ Last(messages).content = "ab"

\* C7 - Stream failure discards the partial response: when the backend raises
\* after any number of fragments, the log is what it was when the response
\* began, with the user's question as its last entry.
C7_StreamFailureDiscards ==
  turn = "failed" =>
    /\ messages = respondLog
    /\ Last(messages).role = "user"

\* the backend raised after a fragment had arrived
C7_Witness ==
  /\ turn = "failed" /\ response = "a"
  /\ Last(messages) = Msg("user", "q")

\* C8 - Backend unavailable mutates nothing: when create_run fails, every
\* session field has the value it had before the request being served.
C8_BackendUnavailableMutatesNothing ==
  (ended = "db_warning" /\ snap.taken) =>
    /\ ss_keys = snap.keys
    /\ ss_assistant = snap.assistant
    /\ ss_assistant_run_id = snap.run_id
    /\ selected_llm = snap.llm
    /\ web_search_enabled = snap.web
    /\ messages = snap.messages
    /\ Ledger = snap.ledger

\* C9 - Message-log append-only: in every step of an event that neither
\* restarts nor switches the run, the log before the step is a prefix of the
\* log after it.
C9_LogAppendOnly ==
  [][(/\ snap.taken /\ snap.run_id # NoneId
      /\ "messages" \in snap.keys
      /\ rs.phase = "none" /\ rs'.phase = "none"
      /\ ss_assistant_run_id' = snap.run_id
      /\ ss_assistant' = snap.assistant)
     => IsPrefix(messages, messages')]_vars

\* C10 - Message roles: every entry of the message log has a role among user,
\* assistant and system.
C10_MessageRoles ==
  \A i \in 1..Len(messages) : messages[i].role \in Roles

\* C11 - Run switching round-trip: once another existing run whose persisted
\* history is not empty has been picked in the run selector and the rerun has
\* resolved it, that run is the active one and the message log is its
\* persisted history, entry for entry, system entries included; rendering
\* alone leaves the system entries out.
C11_RunSwitchRoundTrip ==
  /\ (rs.phase = "switched") =>
       /\ ss_assistant_run_id = rs.known /\ rs.known # rs.old
       /\ ss_assistant.run_id = rs.known
  /\ (rs.phase = "switched" /\ LogLoaded /\ history[rs.known] # << >>) =>
       /\ messages = history[rs.known]
       /\ displayed = Display(history[rs.known])

\* the run of an earlier session, which holds a system entry, has been loaded
C11_Witness ==
  /\ rs.phase = "switched" /\ LogLoaded /\ rs.old # NoneId
  /\ messages = OldHistory
  /\ Len(displayed) < Len(messages)

\* C12 - Chunk size is a function of the active model: whenever a reader is
\* invoked, for a URL or a file, the chunk size it is given is 2000 if the
\* selected model is Hermes2 and 3000 if it is GPT-4 or GPT-3.5, whatever
\* model changes, restarts and ingestions came before.
C12_ChunkSizeOfModel ==
  (ing.kind # "none" /\ ing.trace # << >>) =>
    /\ selected_llm = w_llm
    /\ selected_llm = "Hermes2" => ing.size = 2000
    /\ selected_llm \in {"GPT-4", "GPT-3.5"} => ing.size = 3000

\* a reader invoked under Hermes2 after a model change restarted the session
C12_Witness ==
  /\ ing.kind # "none" /\ ing.trace # << >>
  /\ selected_llm = "Hermes2" /\ ing.size = 2000
  /\ ss_assistant_run_id > 2

\* C13 - Restart preserves its trigger: from restart_assistant on, through the
\* script run that follows, the stored model and web-search flag are the
\* newly selected value for the setting whose change caused the restart and
\* the values held before the event for every other one; after "New Run" both
\* are the values held before.
C13_RestartPreservesTrigger ==
  (rs.phase \in {"restarting", "active"}) =>
    /\ snap.taken
    /\ rs.why = "model" =>
         /\ selected_llm = w_llm /\ selected_llm # snap.llm
         /\ web_search_enabled = snap.web
    /\ rs.why = "web_search" =>
         /\ web_search_enabled = w_web /\ web_search_enabled # snap.web
         /\ selected_llm = snap.llm
    /\ rs.why = "new_run" =>
         /\ selected_llm = snap.llm /\ web_search_enabled = snap.web

\* the session is Active again after web search was switched on
C13_Witness ==
  /\ rs.phase = "active" /\ rs.why = "web_search"
  /\ web_search_enabled /\ ~snap.web /\ selected_llm = snap.llm

\* C14 - Model-change notice: after a model change the notice flag is pending
\* when the rerun of the restart starts; that script run shows the notice and
\* consumes the flag; and a script run shows the notice only if it follows a
\* model change, so each change shows it once.
C14_ModelChangeNotice ==
  /\ (rs.why = "model" /\ rs.phase = "restarting" /\ pc = "llm") =>
       "llm_updated" \in ss_keys
  /\ (rs.why = "model" /\ rs.phase \in {"restarting", "active"} /\ pc # "llm") =>
       /\ notice_shown
       /\ "llm_updated" \notin ss_keys
  /\ (notice_shown /\ pc # "idle") => rs.why = "model"

\* the notice is on screen after a model change made with documents in the
\* knowledge base
C14_Witness ==
  /\ rs.why = "model" /\ rs.phase = "active" /\ pc = "buttons"
  /\ notice_shown /\ kb # {} /\ Ledger # {}

\* C15 - Ledger entries survive knowledge-base mutation: an event that causes
\* no restart removes no ledger entry; "Clear Knowledge Base" leaves every
\* mark in place; and a source marked before the clear is skipped, with no
\* reader call, when it is ingested again after it.
C15_LedgerSurvivesClear ==
  /\ (snap.taken /\ rs.phase \in {"none", "switching", "switched"}) =>
       snap.ledger \subseteq Ledger
  /\ cleared \subseteq Ledger
  /\ (ing.kind # "none" /\ ing.kind \in ing.by /\ ing.key \in cleared) =>
       ing.trace = << >>

\* C16 - At most one mutating call per logical step: an ingestion pass issues
\* at most one upsert; a script run calls create_run at most once, and once
\* when it has resolved the assistant; and a script run that re-renders a
\* session whose run was already resolved, with no restart and no run switch,
\* does not call create_run.
C16_OneMutatingCallPerStep ==
  /\ (ing.kind # "none") =>
       Cardinality({i \in DOMAIN ing.trace : ing.trace[i] = "upsert"}) <= 1
  /\ calls.create_run <= 1
  /\ (/\ pc \in {"history", "respond", "stream", "kb_url", "kb_pdf", "runs", "buttons"}
      /\ snap.taken /\ ss_assistant # snap.assistant) =>
       calls.create_run = 1
  /\ (/\ snap.taken /\ snap.assistant # NoneObj /\ snap.run_id # NoneId
      /\ snap.assistant.run_id = snap.run_id
      /\ ss_assistant = snap.assistant /\ rs.phase = "none") =>
       calls.create_run = 0

\* C17 - Ingestion side-effect order: a pass that is not skipped invokes the
\* reader first; it upserts next, exactly the documents read, only if there
\* are any; and it marks the ledger only after that upsert.
C17_IngestionOrder ==
  (ing.kind # "none") =>
    /\ ing.trace \in {<< >>, <<"read", "upsert", "mark">>, <<"read", "error">>}
    /\ (Len(ing.trace) > 1 /\ ing.trace[2] = "upsert") =>
         (ing.docs # {} /\ ing.sent = ing.docs)
    /\ (Len(ing.trace) < 2 \/ ing.trace[2] # "upsert") => ing.sent = {}

\* C18 - Ledger key derivation: the key of a URL is made of the URL string and
\* the key of a file of its name before the first dot; a source whose key was
\* marked by a source of its own kind is skipped, and a source is skipped only
\* then: a URL never makes a file be skipped, and a file is skipped exactly
\* when a file with the same stem was marked.
C18_LedgerKeyDerivation ==
  (ing.kind # "none") =>
    /\ ing.kind = "url" => ing.key = ing.src[1] \o "_uploaded"
    /\ ing.kind = "file" => ing.key = Join(SplitFirst(ing.src)) \o "_uploaded"
    /\ ing.kind \in ing.by => ing.trace = << >>
    /\ ing.trace = << >> => ing.kind \in ing.by

\* C19 - Stored run id matches the held assistant: whenever no script is
\* running and the session holds an assistant, the stored run id is the run
\* id of that assistant.
C19_RunIdMatchesAssistant ==
  (pc = "idle" /\ ss_assistant # NoneObj) =>
    ss_assistant.run_id = ss_assistant_run_id

\* the script run is past the response step (line 104)
PastRespond ==
  \/ pc \in {"stream", "kb_url", "kb_pdf", "runs", "buttons"}
  \/ pc = "idle" /\ ended = "stream_error"

\* C20 - Non-empty log and guarded response: at the response step the log is
\* the persisted history of the run when that is not empty and the greeting
\* otherwise, followed by the question just submitted if there is one, so it
\* is never empty; a script run asks the backend for a stream at most once, and
\* it does so exactly when the last entry of that log has role user.
C20_GuardedResponse ==
  /\ (pc = "respond") =>
       LET h == history[ss_assistant_run_id]
           base == IF h # << >> THEN h ELSE <<Greeting>>
       IN /\ Len(messages) > 0
          /\ messages = IF trigger.kind = "prompt"
                        THEN Append(base, Msg("user", trigger.text))
                        ELSE base
  /\ calls.run <= 1
  /\ (pc \in {"llm", "web", "assistant", "history", "respond"}) => calls.run = 0
  /\ PastRespond =>
       /\ calls.run = 1 <=> turn # "none"
       /\ calls.run = 1 => (respondLog # << >> /\ Last(respondLog).role = "user")
       /\ calls.run = 0 => Last(messages).role # "user"

\* a script run has asked the backend once, for the question that followed
\* the greeting, and has been answered
C20_Witness ==
  /\ pc = "buttons" /\ calls.run = 1 /\ turn = "answered"
  /\ respondLog = <<Greeting, Msg("user", "q")>>

====
